---- MODULE Spec2Model ----
(***************************************************************************)
(* Model of fluxible-router's handleHistory higher-order component         *)
(* (packages/fluxible-router/src/handleHistory.js): the HistoryHandler     *)
(* instance, the module-level popstate buffer, the window it runs in       *)
(* (history stack, viewport, timers, onbeforeunload, confirm) and the      *)
(* application that owns currentRoute/currentNavigate.                     *)
(***************************************************************************)
EXTENDS Integers, Sequences, FiniteSets, TLC

\* ---------------------------------------------------------------- bounds
MaxDepth == 2        \* entries the native history stack may hold
MaxScroll == 1       \* vertical viewport offsets range over 0..MaxScroll
MaxPending == 2      \* navigation dispatches the application has not applied yet
\* what the environment may do in each specification
OutNavs == 1         \* SpecOut: programmatic navigations
OutPops == 1         \* SpecOut: back/forward moves after the mount
RestoreNavs == 1     \* SpecRestore: programmatic navigations
RestorePops == 1     \* SpecRestore: back/forward moves after the mount
RestoreScrolls == 1  \* SpecRestore: scroll events
InPops == 1          \* SpecIn: back/forward moves after the mount
InHooks == 1         \* SpecIn: onbeforeunload installations
InPre == 1           \* SpecIn: popstate events before the mount
ScrollScrolls == 3   \* SpecScroll: scroll events
ScrollMounts == 2    \* SpecScroll: instances mounted one after another
BufferPops == 1      \* SpecBuffer: back/forward moves after the first mount
BufferMounts == 2    \* SpecBuffer: instances mounted one after another
BufferPre == 2       \* SpecBuffer: popstate events before the first mount
WriteNavs == 1       \* SpecWrite: programmatic navigations
WriteScrolls == 1    \* SpecWrite: scroll events
WriteHooks == 1      \* SpecWrite: onbeforeunload installations
SyncPops == 2        \* SpecSync: back/forward moves after the mount
RacePops == 1        \* SpecRace: back/forward moves after the mount
RaceScrolls == 1     \* SpecRace: scroll events

\* ------------------------------------------------------ program constants
TYPE_CLICK == "click"
TYPE_PAGELOAD == "pageload"
TYPE_REPLACESTATE == "replacestate"
TYPE_POPSTATE == "popstate"
TYPE_DEFAULT == "default"
HAS_PUSH_STATE == TRUE
ScrollSaveDelay == 150

\* granularity of the clock that ages the timers
TickUnit == ScrollSaveDelay

\* ------------------------------------------------------------ value sets
Absent == "absent"                 \* undefined / null / a missing field
EmptyMap == "{}"                   \* the literal {}
URLs == {"/a", "/b"}
Offsets == {0} \X (0..MaxScroll)
NoScroll == <<>>                   \* a state object without a scroll field

\* history.state values: null, or an object with optional params/query/scroll
NullState == [isNull |-> TRUE, params |-> Absent, query |-> Absent, scroll |-> NoScroll]
StateObj(params, query, scroll) ==
    [isNull |-> FALSE, params |-> params, query |-> query, scroll |-> scroll]
\* faulty variant of the literal {}: null
EmptyStateNull == NullState

EmptyState == StateObj(Absent, Absent, NoScroll)

\* the (params, query) pairs a navigation descriptor may carry
NavPQ == {<<"p1", "q1">>}

Max(a, b) == IF a >= b THEN a ELSE b

\* -------------------------------------------- History (wraps window.history)
Entry(url, st) == [url |-> url, state |-> st]

GetUrl(h) == h.entries[h.index].url

GetState(h) == h.entries[h.index].state

\* pushState(state, title, url): the entries after the current one are dropped,
\* the new entry becomes the current one; a missing url keeps the current URL
PushState(h, st, title, url) ==
    [entries |-> Append(SubSeq(h.entries, 1, h.index),
                        Entry(IF url = Absent THEN GetUrl(h) ELSE url, st)),
     index |-> h.index + 1]

\* replaceState(state, title, url): the current entry is overwritten in place
ReplaceState(h, st, title, url) ==
    [h EXCEPT !.entries[h.index] =
        Entry(IF url = Absent THEN GetUrl(h) ELSE url, st)]

\* ------------------------------------------------------------- variables
VARIABLES
    options,        \* the opts handleHistory was called with
    winHistory,     \* window.history: [entries, index]
    scrollPos,      \* window.scrollX / window.scrollY
    onbeforeunload, \* window.onbeforeunload: "null", "empty", "text", "throws"
    timers,         \* live window timers: set of [id, owner, rem]
    preloadOn,      \* preloadListener is registered on window
    lastPendingPopstateEvent,
    inst,           \* number of HistoryHandler instances mounted so far
    mounted,        \* the latest instance is mounted
    historyOn,      \* this._history.on(this._onHistoryChange) is in force
    scrollOn,       \* window 'scroll' listener this._onScroll is registered
    ignorePageLoadPopstate,  \* this._ignorePageLoadPopstate
    scrollTimer,    \* this._scrollTimer: 0 (null) or a timer id
    route,          \* props.currentRoute.url, Absent when currentRoute is null
    nav,            \* props.currentNavigate
    dispatched,     \* navigateAction payloads handed to executeAction, not yet applied
    synced,         \* componentDidUpdate has run since props last changed
    pageloadPopDone,\* the browser's page-load popstate has been emitted
    last,           \* what the last handler run did
    ghost,          \* bookkeeping for the properties
    scn             \* the scenario: what the environment may still do

vars == <<options, winHistory, scrollPos, onbeforeunload, timers, preloadOn,
          lastPendingPopstateEvent, inst, mounted, historyOn, scrollOn,
          ignorePageLoadPopstate, scrollTimer, route, nav, dispatched, synced,
          pageloadPopDone, last, ghost, scn>>

\* ------------------------------------------------------------ descriptors
\* props.currentNavigate; NullNav is currentNavigate: null (defaultProps)
NullNav == [isNull |-> TRUE, type |-> Absent, url |-> Absent, params |-> Absent,
            query |-> Absent, preserve |-> FALSE]
NavOf(type, url, params, query, preserve) ==
    [isNull |-> FALSE, type |-> type, url |-> url, params |-> params,
     query |-> query, preserve |-> preserve]

\* the payload handed to executeAction(navigateAction, payload)
Payload(type, url, params, query) ==
    [type |-> type, url |-> url, params |-> params, query |-> query]

\* a popstate event: its state, and (bookkeeping) its rank among the events
\* that fired before the first mount, 0 for an event fired after it
NoEvent == [none |-> TRUE, state |-> NullState, seq |-> 0]
EventOf(st, seq) == [none |-> FALSE, state |-> st, seq |-> seq]

\* x || {} on a params/query value
OrEmpty(v) == IF v = Absent THEN EmptyMap ELSE v

\* navParams.pageTitle || null ("p1" stands for {id: 1, pageTitle: 'T1'})
PageTitle(params) == IF params = "p1" THEN "T1" ELSE Absent

\* window.scrollX || window.pageXOffset (pageXOffset is an alias of scrollX)
PageXOffset(pos) == pos[1]
PageYOffset(pos) == pos[2]
WinScrollX(pos) == IF pos[1] # 0 THEN pos[1] ELSE PageXOffset(pos)
WinScrollY(pos) == IF pos[2] # 0 THEN pos[2] ELSE PageYOffset(pos)
WinScroll(pos) == <<WinScrollX(pos), WinScrollY(pos)>>

\* faulty variant of the call: a throwing callback still yields its text
OnBeforeUnloadTextKept(hook) == IF hook \in {"text", "throws"} THEN "Leave?" ELSE ""

\* what window.onbeforeunload() returns; a throw is caught and leaves ''
OnBeforeUnloadText(hook) == IF hook = "text" THEN "Leave?" ELSE ""

\* shouldIgnorePopstateOnPageLoad(): the option, or what the predicate returns
ShouldIgnorePopstateOnPageLoad(opts) == opts.ignorePopstateOnPageLoad

\* --------------------------------------------------- the handlers' effects
\* the log of one handler run
\*   op: the step; ran: the handler the step is about ran in it
\*   ev: the state of the popstate event handled; histNull: getState() was
\*       null when _onHistoryChange began
\*   calls: the pushState/replaceState calls of the handler; disp: how many
\*       payloads it dispatched
\*   confirm: "none" (not reached), "auto", "granted", "denied"
\*   unload: window.onbeforeunload was invoked; suppressed: the event was discarded
\*   scrollTo: the target of window.scrollTo; moved: the viewport changed
\*   seed, pageload: componentDidMount seeded the state, dispatched a pageload
\*   detached: the timer that fired belonged to an instance no longer mounted
Log(op) ==
    [op |-> op, ran |-> FALSE, ev |-> NullState, histNull |-> FALSE,
     calls |-> <<>>, disp |-> 0, confirm |-> "none", unload |-> FALSE,
     suppressed |-> FALSE, scrollTo |-> NoScroll, moved |-> FALSE,
     seed |-> FALSE, pageload |-> FALSE, detached |-> FALSE]

\* a pushState/replaceState call: which one, and the url argument it was given
Call(kind, st, title, url) == [kind |-> kind, url |-> url]

\* a handler run that did nothing
Untouched(h, hook) ==
    [hist |-> h, hook |-> hook, calls |-> <<>>, disp |-> <<>>,
     confirm |-> "none", unload |-> FALSE, suppressed |-> FALSE]

\* faulty variant of the page-load test: it asks for a null history state
IsPageloadPopstateBothNull(e, stateFromHistory) ==
    e.state.isNull /\ stateFromHistory.isNull

\* e.state === null && !!stateFromHistory
IsPageloadPopstate(e, stateFromHistory) == e.state.isNull /\ ~stateFromHistory.isNull

\* faulty variant of the dispatch test: it dispatches whatever the urls are
ShouldDispatchAlways(url, currentUrl) == TRUE

\* url !== currentUrl: the granted case dispatches
ShouldDispatch(url, currentUrl) == url # currentUrl

\* faulty variant of the denied case: it pushes the url the browser moved to
CompensationUrlNative(url, currentUrl) == url

\* the url the denied case pushes: currentUrl
CompensationUrl(url, currentUrl) == currentUrl

\* faulty variant of the reset: the callback stays registered
HookAfterDispatchKept(hook) == hook

\* window.onbeforeunload = null, just before the popstate dispatch
HookAfterDispatch(hook) == "null"

\* HistoryHandler._onHistoryChange(e): the handler's effect on the history,
\* the onbeforeunload slot and the dispatcher; ans is what window.confirm returns
OnHistoryChange(e, ignore, opts, h, hook, pos, rt, nv, ans) ==
    LET stateFromHistory == GetState(h)
        isPageloadPopstate == IsPageloadPopstate(e, stateFromHistory)
        url == GetUrl(h)
        currentUrl == rt
        called == hook # "null"
        onBeforeUnloadText == IF called THEN OnBeforeUnloadText(hook) ELSE ""
        asked == onBeforeUnloadText # ""
        confirmResult == IF asked THEN ans ELSE TRUE
        navParams == OrEmpty(nv.params)
        navQuery == OrEmpty(nv.query)
        historyState == StateObj(navParams, navQuery,
                            IF opts.saveScrollInState THEN WinScroll(pos) ELSE NoScroll)
        pageTitle == PageTitle(navParams)
        quiet == Untouched(h, hook)
    IN  IF ignore /\ isPageloadPopstate
        THEN [quiet EXCEPT !.suppressed = TRUE]
        ELSE IF ~confirmResult
        THEN [quiet EXCEPT
                !.hist = PushState(h, historyState, pageTitle,
                                   CompensationUrl(url, currentUrl)),
                !.calls = <<Call("push", historyState, pageTitle,
                                 CompensationUrl(url, currentUrl))>>,
                !.confirm = "denied", !.unload = called]
        ELSE IF ShouldDispatch(url, currentUrl)
        THEN [quiet EXCEPT
                !.hook = HookAfterDispatch(hook),
                !.disp = <<Payload(TYPE_POPSTATE, url,
                                   IF e.state.isNull THEN Absent ELSE e.state.params,
                                   IF e.state.isNull THEN Absent ELSE e.state.query)>>,
                !.confirm = IF asked THEN "granted" ELSE "auto", !.unload = called]
        ELSE [quiet EXCEPT
                !.confirm = IF asked THEN "granted" ELSE "auto", !.unload = called]

\* faulty variant of the redundancy test: it never finds the offsets saved
AlreadySavedNever(historyState, scrollX, scrollY) == FALSE

\* historyState.scroll && historyState.scroll.x === scrollX && ....y === scrollY
AlreadySaved(historyState, scrollX, scrollY) ==
    /\ historyState.scroll # NoScroll
    /\ historyState.scroll[1] = scrollX
    /\ historyState.scroll[2] = scrollY

\* faulty variant of the stored scroll field: the coordinates swapped
ScrollFieldSwapped(scrollX, scrollY) == <<scrollY, scrollX>>

\* historyState.scroll = {x: scrollX, y: scrollY}
ScrollField(scrollX, scrollY) == <<scrollX, scrollY>>

\* HistoryHandler._saveScrollPosition(): the history after the scroll save
\* faulty variant of _saveScrollPosition: a fresh state object is pushed
SaveScrollPositionPush(h, pos) ==
    LET historyState == IF GetState(h).isNull THEN EmptyState ELSE GetState(h)
        scrollX == WinScrollX(pos)
        scrollY == WinScrollY(pos)
    IN  IF AlreadySaved(historyState, scrollX, scrollY)
        THEN [hist |-> h, calls |-> <<>>]
        ELSE LET st == StateObj(Absent, Absent, ScrollField(scrollX, scrollY))
             IN  [hist |-> PushState(h, st, Absent, Absent),
                  calls |-> <<Call("push", st, Absent, Absent)>>]

SaveScrollPosition(h, pos) ==
    LET historyState == IF GetState(h).isNull THEN EmptyState ELSE GetState(h)
        scrollX == WinScrollX(pos)
        scrollY == WinScrollY(pos)
    IN  IF AlreadySaved(historyState, scrollX, scrollY)
        THEN [hist |-> h, calls |-> <<>>]
        ELSE LET st == [historyState EXCEPT !.scroll = ScrollField(scrollX, scrollY)]
             IN  [hist |-> ReplaceState(h, st, Absent, Absent),
                  calls |-> <<Call("replace", st, Absent, Absent)>>]

\* faulty variant of the idempotence guard: it never finds the urls equal
SameUrlNever(nv, h) == FALSE

\* nav.url === this._history.getUrl()
SameUrl(nv, h) == nv.url = GetUrl(h)

\* faulty variant of the push/replace choice: it always pushes
UsesReplaceNever(navType) == FALSE

\* navType === TYPE_REPLACESTATE: replaceState, otherwise pushState
UsesReplace(navType) == navType = TYPE_REPLACESTATE

\* faulty variant of the default coordinate: the viewport's instead of 0
CoordOrCurrent(v, pos) == IF v = 0 THEN pos ELSE v

\* v || 0 on a stored scroll coordinate
CoordOrZero(v, pos) == IF v = 0 THEN 0 ELSE v

\* faulty variant of the restore: without a stored scroll the viewport stays
RestoreTargetKeep(scroll, pos) ==
    IF scroll = NoScroll THEN pos
    ELSE <<CoordOrZero(scroll[1], pos[1]), CoordOrZero(scroll[2], pos[2])>>

\* window.scrollTo(scroll.x || 0, scroll.y || 0) for the stored scroll
RestoreTarget(scroll, pos) ==
    IF scroll = NoScroll THEN <<0, 0>>
    ELSE <<CoordOrZero(scroll[1], pos[1]), CoordOrZero(scroll[2], pos[2])>>

\* faulty variant of the url argument: none is passed
NavUrlDropped(nv) == Absent

\* nav.url, the url argument of pushState and replaceState
NavUrl(nv) == nv.url

\* HistoryHandler.componentDidUpdate(): the effect of the outbound sync
DidUpdateEffect(opts, h, pos, nv) ==
    LET navType == IF nv.type = Absent THEN TYPE_DEFAULT ELSE nv.type
        navParams == OrEmpty(nv.params)
        navQuery == OrEmpty(nv.query)
        quiet == [hist |-> h, pos |-> pos, calls |-> <<>>, scrollTo |-> NoScroll]
    IN  IF navType \in {TYPE_CLICK, TYPE_DEFAULT, TYPE_REPLACESTATE}
        THEN IF SameUrl(nv, h)
             THEN quiet
             ELSE LET moved == ~nv.preserve /\ opts.enableScroll
                      pos2 == IF moved THEN <<0, 0>> ELSE pos
                      scroll == IF ~opts.saveScrollInState THEN NoScroll
                                ELSE IF nv.preserve THEN WinScroll(pos)
                                ELSE <<0, 0>>
                      historyState == StateObj(navParams, navQuery, scroll)
                      pageTitle == PageTitle(navParams)
                  IN  IF UsesReplace(navType)
                      THEN [hist |-> ReplaceState(h, historyState, pageTitle, NavUrl(nv)),
                            pos |-> pos2,
                            calls |-> <<Call("replace", historyState, pageTitle, NavUrl(nv))>>,
                            scrollTo |-> IF moved THEN <<0, 0>> ELSE NoScroll]
                      ELSE [hist |-> PushState(h, historyState, pageTitle, NavUrl(nv)),
                            pos |-> pos2,
                            calls |-> <<Call("push", historyState, pageTitle, NavUrl(nv))>>,
                            scrollTo |-> IF moved THEN <<0, 0>> ELSE NoScroll]
        ELSE IF navType = TYPE_POPSTATE /\ opts.enableScroll
        THEN LET historyState == IF GetState(h).isNull THEN EmptyState ELSE GetState(h)
                 scroll == historyState.scroll
                 target == RestoreTarget(scroll, pos)
             IN  [quiet EXCEPT !.pos = target, !.scrollTo = target]
        ELSE quiet

\* HistoryHandler._onScroll(): the pending timer is cleared, a new one is armed
FreshTimerId(ts, held) == CHOOSE i \in 1..(Cardinality(ts) + 2) :
                              i # held /\ \A t \in ts : t.id # i
\* faulty variant of _onScroll: the pending timer is not cleared
OnScrollNoClear(ts, held, owner) ==
    LET id == FreshTimerId(ts, held)
    IN  [timers |-> ts \cup {[id |-> id, owner |-> owner, rem |-> ScrollSaveDelay]},
         scrollTimer |-> id]

OnScroll(ts, held, owner) ==
    LET cleared == IF held # 0 THEN {t \in ts : t.id # held} ELSE ts
        id == FreshTimerId(cleared, held)
    IN  [timers |-> cleared \cup {[id |-> id, owner |-> owner, rem |-> ScrollSaveDelay]},
         scrollTimer |-> id]

\* ------------------------------------------------------------ bookkeeping
\* ghost.pushedAt: index of the entry made by the latest push that reset the
\* viewport, 0 once that entry has been overwritten or dropped
PushedAtAfter(pa, h, calls) ==
    IF calls = <<>> THEN pa
    ELSE IF calls[1].kind = "replace" THEN (IF h.index = pa THEN 0 ELSE pa)
    ELSE (IF h.index < pa THEN 0 ELSE pa)

NoBurst == [n |-> 0, writes |-> 0, lastPos |-> NoScroll, written |-> NoScroll,
            fired |-> FALSE]

\* ghost.armedAt: index of the entry that was current when the latest scroll
\* event armed the timer, 0 when that is not recorded

\* the log once the run it describes is no longer the latest thing that happened
Stale == Log("none")

\* a scenario: how many programmatic navigations, back/forward moves, scroll
\* events and onbeforeunload installations the environment may still make, how
\* many instances may be mounted, how many popstate events may precede the
\* first mount, and which bookkeeping is kept
Scenario(navs, pops, scrolls, hooks, mounts, pre, track) ==
    [navs |-> navs, pops |-> pops, scrolls |-> scrolls, hooks |-> hooks,
     mounts |-> mounts, pre |-> pre, track |-> track]

Tracked(what) == what \in scn.track

\* ------------------------------------------------------------------- Init
InitHistories ==
    { [entries |-> <<Entry("/a", NullState)>>, index |-> 1],
      [entries |-> <<Entry("/a", NullState), Entry("/b", NullState)>>, index |-> 2],
      [entries |-> <<Entry("/a", NullState), Entry("/b", StateObj("p1", "q1", NoScroll))>>,
       index |-> 1] }

Options == [ignorePopstateOnPageLoad : BOOLEAN, enableScroll : BOOLEAN,
            saveScrollInState : BOOLEAN, checkRouteOnPageLoad : BOOLEAN]

\* the page has loaded, the module has run, nothing is mounted yet
InitWith(opts, scenario, hists, routeless, offsets) ==
    /\ options \in opts
    /\ scn = scenario
    /\ winHistory \in hists
    /\ scrollPos \in offsets
    /\ onbeforeunload = "null"
    /\ timers = {}
    /\ preloadOn = HAS_PUSH_STATE
    /\ lastPendingPopstateEvent = NoEvent
    /\ inst = 0
    /\ mounted = FALSE
    /\ historyOn = FALSE
    /\ scrollOn = FALSE
    /\ ignorePageLoadPopstate = FALSE
    /\ scrollTimer = 0
    /\ route \in {GetUrl(winHistory)} \cup (IF routeless THEN {Absent} ELSE {})
    /\ nav = NullNav
    /\ dispatched = <<>>
    /\ synced = TRUE
    /\ pageloadPopDone = FALSE
    /\ last = Log("init")
    /\ ghost = [preN |-> 0, handled |-> [k \in 1..scenario.pre |-> 0],
                replays |-> 0, postReplayed |-> FALSE, pushedAt |-> 0,
                burst |-> NoBurst, armedAt |-> 0]

\* -------------------------------------------------------------- actions
\* faulty variant of the replay: the buffered event is kept
BufferKept(e) == e

\* lastPendingPopstateEvent = null, once the buffered event has been replayed
BufferAfterReplay(e) == NoEvent

\* faulty variant of the seeding test: the state is never seeded
NeedsSeedNever(ignore, historyState) == FALSE

\* this._ignorePageLoadPopstate and !historyState: componentDidMount seeds {}
NeedsSeed(ignore, historyState) == ignore /\ historyState.isNull

\* HistoryHandler.componentDidMount()
Mount ==
    /\ ~mounted
    /\ inst < scn.mounts
    /\ \E ans \in BOOLEAN :
        LET ignore == ShouldIgnorePopstateOnPageLoad(options)
            seeded == NeedsSeed(ignore, GetState(winHistory))
            h1 == IF seeded THEN ReplaceState(winHistory, EmptyState, Absent, Absent)
                  ELSE winHistory
            seedCalls == IF seeded THEN <<Call("replace", EmptyState, Absent, Absent)>>
                         ELSE <<>>
            urlFromHistory == GetUrl(h1)
            urlFromState == route
            pageload == IF options.checkRouteOnPageLoad /\ urlFromHistory # urlFromState
                        THEN <<Payload(TYPE_PAGELOAD, urlFromHistory, Absent, Absent)>>
                        ELSE <<>>
            e == lastPendingPopstateEvent
            replay == HAS_PUSH_STATE /\ ~e.none
            r == IF replay
                 THEN OnHistoryChange(e, ignore, options, h1, onbeforeunload,
                                      scrollPos, route, nav, ans)
                 ELSE Untouched(h1, onbeforeunload)
        IN  /\ r.hist.index <= MaxDepth
            /\ Len(dispatched) + Len(pageload) + Len(r.disp) <= MaxPending
            /\ ignorePageLoadPopstate' = ignore
            /\ winHistory' = r.hist
            /\ onbeforeunload' = r.hook
            /\ dispatched' = dispatched \o pageload \o r.disp
            /\ scrollTimer' = 0
            /\ historyOn' = TRUE
            /\ preloadOn' = IF HAS_PUSH_STATE THEN FALSE ELSE preloadOn
            /\ lastPendingPopstateEvent' =
                   IF replay THEN BufferAfterReplay(e) ELSE lastPendingPopstateEvent
            /\ scrollOn' = IF options.saveScrollInState THEN TRUE ELSE scrollOn
            /\ inst' = inst + 1
            /\ mounted' = TRUE
            /\ last' = [Log("mount") EXCEPT
                           !.ev = e.state, !.histNull = GetState(h1).isNull,
                           !.calls = r.calls, !.disp = Len(r.disp),
                           !.confirm = r.confirm, !.unload = r.unload,
                           !.suppressed = r.suppressed, !.ran = replay,
                           !.seed = seeded, !.pageload = pageload # <<>>]
            /\ ghost' = [ghost EXCEPT
                           !.replays = IF replay /\ Tracked("buffer") THEN @ + 1 ELSE @,
                           !.handled = IF replay /\ e.seq > 0 /\ Tracked("buffer")
                                       THEN [@ EXCEPT ![e.seq] = @ + 1] ELSE @,
                           !.postReplayed = @ \/ (replay /\ e.seq = 0),
                           !.pushedAt = PushedAtAfter(
                                           PushedAtAfter(@, winHistory, seedCalls),
                                           h1, r.calls),
                           !.burst = NoBurst]
    /\ UNCHANGED <<options, scrollPos, timers, route, nav, synced, pageloadPopDone, scn>>

\* HistoryHandler.componentWillUnmount()
Unmount ==
    /\ mounted
    /\ mounted' = FALSE
    /\ historyOn' = FALSE
    /\ scrollOn' = IF options.saveScrollInState THEN FALSE ELSE scrollOn
    /\ last' = Log("unmount")
    /\ ghost' = [ghost EXCEPT !.burst = NoBurst]
    /\ UNCHANGED <<options, winHistory, scrollPos, onbeforeunload, timers, preloadOn,
                   lastPendingPopstateEvent, inst, ignorePageLoadPopstate,
                   scrollTimer, route, nav, dispatched, synced, pageloadPopDone, scn>>

\* a popstate event fires on window once the history stands at h0:
\* preloadListener buffers it, a subscribed _onHistoryChange handles it
Popstate(h0, st) ==
    \E ans \in BOOLEAN :
        LET e == EventOf(st, IF inst = 0 THEN ghost.preN + 1 ELSE 0)
            r == IF historyOn
                 THEN OnHistoryChange(e, ignorePageLoadPopstate, options, h0,
                                      onbeforeunload, scrollPos, route, nav, ans)
                 ELSE Untouched(h0, onbeforeunload)
        IN  /\ inst = 0 => ghost.preN < scn.pre
            /\ r.hist.index <= MaxDepth
            /\ Len(dispatched) + Len(r.disp) <= MaxPending
            /\ winHistory' = r.hist
            /\ onbeforeunload' = r.hook
            /\ dispatched' = dispatched \o r.disp
            /\ lastPendingPopstateEvent' =
                   IF preloadOn THEN e ELSE lastPendingPopstateEvent
            /\ last' = [Log(IF historyOn THEN "onHistoryChange"
                            ELSE IF preloadOn THEN "preload" ELSE "unheard") EXCEPT
                           !.ev = st, !.histNull = GetState(h0).isNull,
                           !.calls = r.calls, !.disp = Len(r.disp),
                           !.confirm = r.confirm, !.unload = r.unload,
                           !.suppressed = r.suppressed, !.ran = historyOn]
            /\ ghost' = [ghost EXCEPT
                           !.preN = IF inst = 0 THEN @ + 1 ELSE @,
                           !.handled = IF historyOn /\ e.seq > 0 /\ Tracked("buffer")
                                       THEN [@ EXCEPT ![e.seq] = @ + 1] ELSE @,
                           !.pushedAt = PushedAtAfter(@, h0, r.calls),
                           !.burst = NoBurst]

\* the user goes back or forward: the browser moves to entry i and fires popstate
NativePopstate ==
    /\ inst > 0 => scn.pops > 0
    /\ scn' = IF inst > 0 THEN [scn EXCEPT !.pops = @ - 1] ELSE scn
    /\ \E i \in 1..Len(winHistory.entries) :
        /\ i # winHistory.index
        /\ Popstate([winHistory EXCEPT !.index = i], winHistory.entries[i].state)
    /\ UNCHANGED <<options, scrollPos, timers, preloadOn, inst, mounted, historyOn,
                   scrollOn, ignorePageLoadPopstate, scrollTimer, route, nav,
                   synced, pageloadPopDone>>

\* the popstate some browsers fire on page load: null state, no entry change
PageloadPopstate ==
    /\ ~pageloadPopDone
    /\ pageloadPopDone' = TRUE
    /\ Popstate(winHistory, NullState)
    /\ UNCHANGED <<options, scrollPos, timers, preloadOn, inst, mounted, historyOn,
                   scrollOn, ignorePageLoadPopstate, scrollTimer, route, nav, synced,
                   scn>>

\* a scroll event on window: the viewport is at pos, _onScroll runs if registered
ScrollEvent ==
    /\ scn.scrolls > 0
    /\ scn' = [scn EXCEPT !.scrolls = @ - 1]
    /\ \E pos \in Offsets :
        LET r == IF scrollOn THEN OnScroll(timers, scrollTimer, inst)
                 ELSE [timers |-> timers, scrollTimer |-> scrollTimer]
        IN  /\ scrollPos' = pos
            /\ timers' = r.timers
            /\ scrollTimer' = r.scrollTimer
            /\ last' = [Log("scroll") EXCEPT !.ran = scrollOn]
            /\ ghost' = [ghost EXCEPT !.burst =
                   IF ~scrollOn \/ ~Tracked("burst") THEN NoBurst
                   ELSE IF @.n = 0 \/ @.fired
                   THEN [NoBurst EXCEPT !.n = 1, !.lastPos = pos]
                   ELSE [@ EXCEPT !.n = IF @ < 2 THEN @ + 1 ELSE @,
                                  !.lastPos = pos],
                   !.armedAt = IF scrollOn /\ Tracked("race") THEN winHistory.index
                               ELSE 0]
    /\ UNCHANGED <<options, winHistory, onbeforeunload, preloadOn,
                   lastPendingPopstateEvent, inst, mounted, historyOn, scrollOn,
                   ignorePageLoadPopstate, route, nav, dispatched, synced,
                   pageloadPopDone>>

\* time passes: every live timer comes TickUnit closer to its deadline
Tick ==
    /\ \E t \in timers : t.rem > 0
    /\ timers' = {[t EXCEPT !.rem = Max(0, @ - TickUnit)] : t \in timers}
    /\ last' = Stale
    /\ UNCHANGED <<options, winHistory, scrollPos, onbeforeunload, preloadOn,
                   lastPendingPopstateEvent, inst, mounted, historyOn, scrollOn,
                   ignorePageLoadPopstate, scrollTimer, route, nav, dispatched,
                   synced, pageloadPopDone, ghost, scn>>

\* a due timer fires: HistoryHandler._saveScrollPosition() of the instance that armed it
TimerFire ==
    /\ \E t \in timers :
        LET r == SaveScrollPosition(winHistory, scrollPos)
            own == t.owner = inst /\ ghost.burst.n > 0
        IN  /\ t.rem = 0
            /\ timers' = timers \ {t}
            /\ winHistory' = r.hist
            /\ last' = [Log("timer") EXCEPT
                           !.calls = r.calls, !.ran = TRUE,
                           !.detached = ~(mounted /\ t.owner = inst)]
            /\ ghost' = [ghost EXCEPT
                           !.pushedAt = PushedAtAfter(@, winHistory, r.calls),
                           !.burst = IF ~own THEN @
                                     ELSE [@ EXCEPT
                                            !.writes = @ + Len(r.calls),
                                            !.written = IF r.calls # <<>>
                                                        THEN GetState(r.hist).scroll
                                                        ELSE @,
                                            !.fired = TRUE]]
    /\ UNCHANGED <<options, scrollPos, onbeforeunload, preloadOn,
                   lastPendingPopstateEvent, inst, mounted, historyOn, scrollOn,
                   ignorePageLoadPopstate, scrollTimer, route, nav, dispatched,
                   synced, pageloadPopDone, scn>>

\* the page installs or removes its window.onbeforeunload
SetOnBeforeUnload ==
    /\ scn.hooks > 0
    /\ scn' = [scn EXCEPT !.hooks = @ - 1]
    /\ \E v \in {"null", "empty", "text", "throws"} :
        /\ v # onbeforeunload
        /\ onbeforeunload' = v
    /\ last' = Stale
    /\ UNCHANGED <<options, winHistory, scrollPos, timers, preloadOn,
                   lastPendingPopstateEvent, inst, mounted, historyOn, scrollOn,
                   ignorePageLoadPopstate, scrollTimer, route, nav, dispatched,
                   synced, pageloadPopDone, ghost>>

\* the application navigates programmatically: the route store takes the new
\* route and descriptor, the component will update
AppNavigate ==
    /\ mounted
    /\ scn.navs > 0
    /\ scn' = [scn EXCEPT !.navs = @ - 1]
    /\ \E type \in {TYPE_CLICK, TYPE_DEFAULT, Absent, TYPE_REPLACESTATE}, url \in URLs,
          pq \in NavPQ, preserve \in BOOLEAN :
        /\ route' = url
        /\ nav' = NavOf(type, url, pq[1], pq[2], preserve)
    /\ synced' = FALSE
    /\ last' = Stale
    /\ UNCHANGED <<options, winHistory, scrollPos, onbeforeunload, timers, preloadOn,
                   lastPendingPopstateEvent, inst, mounted, historyOn, scrollOn,
                   ignorePageLoadPopstate, scrollTimer, dispatched,
                   pageloadPopDone, ghost>>

\* navigateAction completes for the oldest dispatched payload: the route store
\* takes its url as the current route and the payload as currentNavigate
ApplyNavigate ==
    /\ dispatched # <<>>
    /\ LET p == Head(dispatched)
       IN  /\ route' = p.url
           /\ nav' = NavOf(p.type, p.url, p.params, p.query, FALSE)
    /\ dispatched' = Tail(dispatched)
    /\ synced' = FALSE
    /\ last' = Stale
    /\ UNCHANGED <<options, winHistory, scrollPos, onbeforeunload, timers, preloadOn,
                   lastPendingPopstateEvent, inst, mounted, historyOn, scrollOn,
                   ignorePageLoadPopstate, scrollTimer, pageloadPopDone, ghost, scn>>

\* HistoryHandler.componentDidUpdate()
DidUpdate ==
    /\ mounted
    /\ LET r == DidUpdateEffect(options, winHistory, scrollPos, nav)
           reset == r.calls # <<>> /\ r.calls[1].kind = "push"
                    /\ ~nav.preserve /\ options.enableScroll
       IN  /\ r.hist.index <= MaxDepth
           /\ winHistory' = r.hist
           /\ scrollPos' = r.pos
           /\ last' = [Log("didUpdate") EXCEPT
                          !.calls = r.calls, !.scrollTo = r.scrollTo, !.ran = TRUE,
                          !.moved = r.pos # scrollPos]
           /\ ghost' = [ghost EXCEPT
                          !.pushedAt = IF ~Tracked("push") THEN 0
                                       ELSE IF reset THEN r.hist.index
                                       ELSE PushedAtAfter(@, winHistory, r.calls),
                          !.burst = NoBurst]
    /\ synced' = TRUE
    /\ UNCHANGED <<options, onbeforeunload, timers, preloadOn,
                   lastPendingPopstateEvent, inst, mounted, historyOn, scrollOn,
                   ignorePageLoadPopstate, scrollTimer, route, nav, dispatched,
                   pageloadPopDone, scn>>

\* --------------------------------------------------------- specifications
\* every handler and every move of the environment, one of each kind
Next ==
    \/ Mount
    \/ Unmount
    \/ NativePopstate
    \/ PageloadPopstate
    \/ ScrollEvent
    \/ Tick
    \/ TimerFire
    \/ SetOnBeforeUnload
    \/ AppNavigate
    \/ ApplyNavigate
    \/ DidUpdate

Init == InitWith({o \in Options : o.enableScroll /\ o.saveScrollInState},
                 Scenario(1, 1, 1, 1, 1, 1, {}), InitHistories, FALSE, {<<0, 0>>})

Spec == Init /\ [][Next]_vars

\* outbound sync: the application navigates and the user goes back or
\* forward; the viewport is where the page load left it, no scroll event, no
\* onbeforeunload, no page-load popstate
NextOut ==
    \/ Mount
    \/ NativePopstate
    \/ AppNavigate
    \/ ApplyNavigate
    \/ DidUpdate

InitOut == InitWith({o \in Options : ~o.ignorePopstateOnPageLoad /\ ~o.checkRouteOnPageLoad},
                    Scenario(OutNavs, OutPops, 0, 0, 1, 0, {}),
                    InitHistories, FALSE, Offsets)

SpecOut == InitOut /\ [][NextOut]_vars

\* scroll restoration: navigation, back/forward moves and scroll events with
\* enableScroll on, all within the debounce delay of the first scroll event
NextRestore ==
    \/ Mount
    \/ NativePopstate
    \/ ScrollEvent
    \/ AppNavigate
    \/ ApplyNavigate
    \/ DidUpdate

InitRestore == InitWith({o \in Options : o.enableScroll /\ ~o.ignorePopstateOnPageLoad
                                           /\ ~o.checkRouteOnPageLoad},
                        Scenario(RestoreNavs, RestorePops, RestoreScrolls, 0, 1, 0, {"push"}),
                        InitHistories, FALSE, {<<0, 0>>})

SpecRestore == InitRestore /\ [][NextRestore]_vars

\* inbound handling: back/forward and page-load popstate events, before and
\* after the mount, onbeforeunload and confirm
NextIn ==
    \/ Mount
    \/ NativePopstate
    \/ PageloadPopstate
    \/ SetOnBeforeUnload
    \/ ApplyNavigate
    \/ DidUpdate

InitIn == InitWith({o \in Options : o.enableScroll /\ o.saveScrollInState
                                      /\ ~o.checkRouteOnPageLoad},
                   Scenario(0, InPops, 0, InHooks, 1, InPre, {}),
                   InitHistories, TRUE, {<<0, 0>>})

SpecIn == InitIn /\ [][NextIn]_vars

\* scroll capture: scroll events, the debounce timer, unmount and remount
NextScroll ==
    \/ Mount
    \/ Unmount
    \/ ScrollEvent
    \/ Tick
    \/ TimerFire
    \/ DidUpdate

InitScroll == InitWith({o \in Options : o.saveScrollInState /\ ~o.ignorePopstateOnPageLoad
                                          /\ ~o.checkRouteOnPageLoad},
                       Scenario(0, 0, ScrollScrolls, 0, ScrollMounts, 0, {"burst"}),
                       InitHistories, FALSE, {<<0, 0>>})

SpecScroll == InitScroll /\ [][NextScroll]_vars

\* the early event buffer: popstate events before and after the mounts
NextBuffer ==
    \/ Mount
    \/ Unmount
    \/ NativePopstate
    \/ PageloadPopstate
    \/ ApplyNavigate
    \/ DidUpdate

InitBuffer == InitWith({o \in Options : o.enableScroll /\ o.saveScrollInState
                                          /\ ~o.checkRouteOnPageLoad},
                       Scenario(0, BufferPops, 0, 0, BufferMounts, BufferPre, {"buffer"}),
                       InitHistories, FALSE, {<<0, 0>>})

SpecBuffer == InitBuffer /\ [][NextBuffer]_vars

\* every writer of the history stack: mount seeding and, scenario by
\* scenario, the outbound push and replace, the scroll save, the denial push
\* (on the page-load popstate), and navigation together with the scroll save
NextWrite ==
    \/ Mount
    \/ PageloadPopstate
    \/ ScrollEvent
    \/ Tick
    \/ TimerFire
    \/ SetOnBeforeUnload
    \/ AppNavigate
    \/ DidUpdate

WriteOptions == {o \in Options : o.enableScroll /\ o.saveScrollInState
                                   /\ ~o.checkRouteOnPageLoad}

InitWrite ==
    \/ InitWith(WriteOptions, Scenario(WriteNavs, 0, 0, 0, 1, 0, {}),
                InitHistories, FALSE, {<<0, 0>>})
    \/ InitWith(WriteOptions, Scenario(0, 0, WriteScrolls, 0, 1, 0, {}),
                InitHistories, FALSE, {<<0, 0>>})
    \/ InitWith(WriteOptions, Scenario(0, 0, 0, WriteHooks, 1, 0, {}),
                InitHistories, FALSE, {<<0, 0>>})
    \/ InitWith(WriteOptions, Scenario(WriteNavs, 0, WriteScrolls, 0, 1, 0, {}),
                InitHistories, FALSE, {<<0, 0>>})

SpecWrite == InitWrite /\ [][NextWrite]_vars

\* the outbound sync of popstate and pageload descriptors: the page loads on a
\* history whose entries may carry the scroll an earlier visit stored
NextSync ==
    \/ Mount
    \/ NativePopstate
    \/ ApplyNavigate
    \/ DidUpdate

SyncHistories ==
    InitHistories \cup
    { [entries |-> <<Entry("/a", StateObj("p1", "q1", <<0, MaxScroll>>)),
                     Entry("/b", NullState)>>, index |-> 2],
      [entries |-> <<Entry("/a", StateObj(EmptyMap, EmptyMap, <<0, 0>>)),
                     Entry("/b", StateObj("p1", "q1", <<0, MaxScroll>>))>>, index |-> 1] }

InitSync == InitWith({o \in Options : ~o.ignorePopstateOnPageLoad},
                     Scenario(0, SyncPops, 0, 0, 1, 0, {}),
                     SyncHistories, TRUE, Offsets)

SpecSync == InitSync /\ [][NextSync]_vars

\* the debounce timer against a back/forward move and its outbound sync
NextRace ==
    \/ Mount
    \/ NativePopstate
    \/ ScrollEvent
    \/ Tick
    \/ TimerFire
    \/ ApplyNavigate
    \/ DidUpdate

InitRace == InitWith({o \in Options : o.enableScroll /\ o.saveScrollInState
                                        /\ ~o.ignorePopstateOnPageLoad
                                        /\ ~o.checkRouteOnPageLoad},
                     Scenario(0, RacePops, RaceScrolls, 0, 1, 0, {"race"}),
                     SyncHistories, FALSE, {<<0, 0>>})

SpecRace == InitRace /\ [][NextRace]_vars

\* ------------------------------------------------------------- properties
ClickTypes == {TYPE_CLICK, TYPE_DEFAULT, Absent, TYPE_REPLACESTATE}

\* C1: componentDidUpdate with a click, default (or missing) or replacestate
\* descriptor whose url is the native history's current URL changes nothing:
\* no pushState, no replaceState, no dispatch, no scrollTo, the viewport stays,
\* whatever preserveScrollPosition, enableScroll and saveScrollInState are.
C1_SameUrlIsNoOp ==
    [][(last'.op = "didUpdate" /\ nav.type \in ClickTypes
        /\ nav.url = GetUrl(winHistory))
       => /\ last'.calls = <<>>
          /\ winHistory' = winHistory
          /\ dispatched' = dispatched
          /\ last'.scrollTo = NoScroll
          /\ scrollPos' = scrollPos]_vars

C1_Witness ==
    /\ last.op = "didUpdate"
    /\ nav.type \in ClickTypes
    /\ nav.url = GetUrl(winHistory)
    /\ last.calls = <<>>
    /\ ~nav.preserve
    /\ options.enableScroll
    /\ scrollPos # <<0, 0>>

\* C2: with _ignorePageLoadPopstate set, _onHistoryChange discards an event
\* whose state is null while getState() is not: it dispatches nothing, calls
\* neither pushState nor replaceState, does not invoke window.onbeforeunload
\* and does not call window.confirm.
C2_SpuriousPopstateDiscarded ==
    [][(last'.ran /\ last'.op \in {"onHistoryChange", "mount"}
        /\ ignorePageLoadPopstate' /\ last'.ev.isNull /\ ~last'.histNull)
       => /\ last'.suppressed
          /\ last'.disp = 0
          /\ last'.calls = <<>>
          /\ ~last'.unload
          /\ last'.confirm = "none"
          /\ onbeforeunload' = onbeforeunload
          /\ (last'.op = "onHistoryChange"
                => /\ dispatched' = dispatched
                   /\ winHistory'.entries = winHistory.entries)]_vars

C2_Witness ==
    /\ last.op = "onHistoryChange"
    /\ last.ran
    /\ ignorePageLoadPopstate
    /\ last.ev.isNull
    /\ ~last.histNull
    /\ last.suppressed
    /\ onbeforeunload = "text"

C4_GrantedDispatchesIffUrlDiffers ==
    [][(last'.ran /\ last'.op \in {"onHistoryChange", "mount"}
        /\ last'.confirm \in {"auto", "granted"})
       => /\ last'.calls = <<>>
          /\ (last'.op = "onHistoryChange" => winHistory'.entries = winHistory.entries)
          /\ last'.disp = (IF GetUrl(winHistory') # route THEN 1 ELSE 0)
          /\ Len(dispatched') = Len(dispatched) + last'.disp
                                  + (IF last'.pageload THEN 1 ELSE 0)
          /\ (last'.disp = 1 =>
                dispatched'[Len(dispatched')] =
                    Payload(TYPE_POPSTATE, GetUrl(winHistory'),
                            IF last'.ev.isNull THEN Absent ELSE last'.ev.params,
                            IF last'.ev.isNull THEN Absent ELSE last'.ev.query))]_vars

C4_Witness ==
    /\ last.op = "onHistoryChange"
    /\ last.confirm = "granted"
    /\ last.disp = 1
    /\ dispatched # <<>>
    /\ dispatched[Len(dispatched)] = Payload(TYPE_POPSTATE, "/b", "p1", "q1")
    /\ route = "/a"

C7_BurstSavedOnce ==
    /\ ghost.burst.writes <= 1
    /\ (ghost.burst.writes = 1 => ghost.burst.written = ghost.burst.lastPos)

C7_Witness ==
    /\ ghost.burst.n >= 2
    /\ ghost.burst.fired
    /\ ghost.burst.writes = 1
    /\ ghost.burst.written = ghost.burst.lastPos
    /\ GetState(winHistory).scroll = ghost.burst.lastPos

\* C8: _saveScrollPosition makes at most one replaceState call, and none when
\* the viewport offsets are the scroll already stored in the current entry's
\* state; after it has run the stored scroll is the viewport offset, so a second
\* run at the same offsets (no history change in between) makes no call.
C8_RedundantSaveSkipped ==
    [][last'.op = "timer"
       => /\ Len(last'.calls) <= 1
          /\ (GetState(winHistory).scroll = scrollPos
                => /\ last'.calls = <<>>
                   /\ winHistory' = winHistory)
          /\ (GetState(winHistory).scroll # scrollPos
                => /\ last'.calls = <<[kind |-> "replace", url |-> Absent]>>)
          /\ GetState(winHistory').scroll = scrollPos]_vars

C8_Witness ==
    /\ last.op = "timer"
    /\ last.calls = <<>>
    /\ scrollPos # <<0, 0>>
    /\ GetState(winHistory).scroll = scrollPos

\* C9 as stated: after componentWillUnmount no listener of the instance is
\* left and no scroll-save timer it armed is still to fire, so the unmounted
\* instance never calls replaceState or pushState: here, its listeners are
\* gone and a timer firing for an unmounted instance makes no history call.
C9_NothingAfterUnmount ==
    /\ (inst > 0 /\ ~mounted => ~historyOn /\ ~scrollOn)
    /\ (last.op = "timer" /\ last.detached => last.calls = <<>>)

\* C10: before the first mount preloadListener holds the latest popstate event
\* only; the first mount unregisters it, replays the held event once through
\* _onHistoryChange and clears the slot; no earlier event is ever handled, none
\* is handled twice, and nothing is buffered or replayed after the first mount.
C10_BufferLatestWinsReplayedOnce ==
    /\ (inst = 0 =>
          /\ preloadOn
          /\ (ghost.preN = 0 => lastPendingPopstateEvent.none)
          /\ (ghost.preN > 0 => /\ ~lastPendingPopstateEvent.none
                                /\ lastPendingPopstateEvent.seq = ghost.preN)
          /\ \A k \in DOMAIN ghost.handled : ghost.handled[k] = 0
          /\ ghost.replays = 0)
    /\ (inst > 0 =>
          /\ ~preloadOn
          /\ lastPendingPopstateEvent.none
          /\ \A k \in DOMAIN ghost.handled :
                ghost.handled[k] = (IF k = ghost.preN THEN 1 ELSE 0)
          /\ ghost.replays = (IF ghost.preN > 0 THEN 1 ELSE 0)
          /\ ~ghost.postReplayed)

C10_Witness ==
    /\ inst = 2
    /\ mounted
    /\ ghost.preN = 2
    /\ ghost.handled[1] = 0
    /\ ghost.handled[2] = 1
    /\ ghost.replays = 1
    /\ scn.pops = 0

\* C11: every entry of the history stack that a step creates or changes, and
\* the current entry after any pushState or replaceState of this system (mount
\* seeding, outbound push and replace, denial push, scroll save), carries a
\* non-null state; entries with a null state are entries the browser made.
C11_WrittenEntriesCarryState ==
    [][/\ \A i \in 1..Len(winHistory'.entries) :
            (i > Len(winHistory.entries)
               \/ winHistory'.entries[i] # winHistory.entries[i])
              => ~winHistory'.entries[i].state.isNull
       /\ (last'.calls # <<>> \/ last'.seed) => ~GetState(winHistory').isNull]_vars

C11_Witness ==
    /\ last.op = "timer"
    /\ last.calls # <<>>
    /\ ignorePageLoadPopstate
    /\ Len(winHistory.entries) = 2
    /\ winHistory.index = 2
    /\ ~winHistory.entries[2].state.isNull
    /\ winHistory.entries[2].state.scroll = scrollPos
    /\ scrollPos # <<0, 0>>

\* C12: when window.onbeforeunload throws, _onHistoryChange catches the
\* error and goes on with empty text: window.confirm is not called, the
\* confirmation counts as granted, and the handler does what the granted case
\* does: no pushState or replaceState, and one popstate dispatch (clearing
\* window.onbeforeunload) exactly when the native URL differs from the route's.
C12_ThrowingCallbackIsGranted ==
    [][(last'.ran /\ last'.op \in {"onHistoryChange", "mount"}
        /\ ~last'.suppressed /\ onbeforeunload = "throws")
       => /\ last'.unload
          /\ last'.confirm = "auto"
          /\ last'.calls = <<>>
          /\ last'.disp = (IF GetUrl(winHistory') # route THEN 1 ELSE 0)
          /\ Len(dispatched') = Len(dispatched) + last'.disp
                                  + (IF last'.pageload THEN 1 ELSE 0)
          /\ (last'.disp = 1 =>
                /\ dispatched'[Len(dispatched')].type = TYPE_POPSTATE
                /\ dispatched'[Len(dispatched')].url = GetUrl(winHistory')
                /\ onbeforeunload' = "null")
          /\ (last'.disp = 0 => onbeforeunload' = "throws")]_vars

C12_Witness ==
    /\ last.op = "onHistoryChange"
    /\ last.ran
    /\ ~last.suppressed
    /\ onbeforeunload = "throws"
    /\ last.unload
    /\ last.confirm = "auto"
    /\ last.disp = 0
    /\ GetUrl(winHistory) = route

\* C13: an instance never has two scroll-save timers outstanding: _onScroll
\* clears the timer it holds before it arms the next, so whatever the scroll
\* events and timer firings, the only live timer of the mounted instance is the
\* one in _scrollTimer.
C13_OneTimerPerInstance ==
    /\ \A t1, t2 \in timers : t1.owner = t2.owner => t1 = t2
    /\ \A t \in timers : (mounted /\ t.owner = inst) => t.id = scrollTimer
    /\ (inst <= 1 => Cardinality(timers) <= 1)

C13_Witness ==
    /\ mounted
    /\ ghost.burst.n >= 2
    /\ ~ghost.burst.fired
    /\ Cardinality(timers) = 1
    /\ \E t \in timers : t.owner = inst /\ t.id = scrollTimer /\ t.rem = ScrollSaveDelay

\* C14: a scroll-save write is one replaceState on the current entry that
\* changes nothing but the scroll field of its state: the stack depth, the
\* current index and URL, the entry's params and query and every other entry
\* stay as they were, and nothing is dispatched.
C14_ScrollSaveTouchesOnlyScroll ==
    [][(last'.op = "timer" /\ last'.calls # <<>>)
       => /\ Len(last'.calls) = 1
          /\ last'.calls[1].kind = "replace"
          /\ Len(winHistory'.entries) = Len(winHistory.entries)
          /\ winHistory'.index = winHistory.index
          /\ GetUrl(winHistory') = GetUrl(winHistory)
          /\ GetState(winHistory').params = GetState(winHistory).params
          /\ GetState(winHistory').query = GetState(winHistory).query
          /\ GetState(winHistory').scroll = scrollPos
          /\ \A i \in 1..Len(winHistory.entries) :
                i # winHistory.index => winHistory'.entries[i] = winHistory.entries[i]
          /\ dispatched' = dispatched
          /\ last'.disp = 0]_vars

C14_Witness ==
    /\ last.op = "timer"
    /\ last.calls # <<>>
    /\ Len(winHistory.entries) = 2
    /\ winHistory.index = 2
    /\ GetState(winHistory).params = "p1"
    /\ GetState(winHistory).query = "q1"
    /\ GetState(winHistory).scroll = scrollPos
    /\ scrollPos # <<0, 0>>
    /\ nav.type = TYPE_CLICK

\* C15: componentDidUpdate with a popstate or pageload descriptor calls neither
\* pushState nor replaceState and dispatches nothing. For popstate with
\* enableScroll it scrolls to the offset stored in the current entry's state,
\* 0 standing in for whatever is missing; otherwise the viewport stays. A
\* back/forward move that is not denied leaves every history entry as it was.
C15_PopstateSyncOnlyScrolls ==
    [][/\ (last'.op = "didUpdate" /\ nav.type \in {TYPE_POPSTATE, TYPE_PAGELOAD})
          => /\ last'.calls = <<>>
             /\ winHistory' = winHistory
             /\ dispatched' = dispatched
             /\ IF nav.type = TYPE_POPSTATE /\ options.enableScroll
                THEN LET stored == GetState(winHistory).scroll
                         target == IF stored = NoScroll THEN <<0, 0>> ELSE stored
                     IN  scrollPos' = target /\ last'.scrollTo = target
                ELSE scrollPos' = scrollPos /\ last'.scrollTo = NoScroll
       /\ (last'.op = "onHistoryChange" /\ last'.ran /\ last'.confirm # "denied")
          => /\ last'.calls = <<>>
             /\ winHistory'.entries = winHistory.entries]_vars

C15_Witness ==
    /\ last.op = "didUpdate"
    /\ nav.type = TYPE_POPSTATE
    /\ options.enableScroll
    /\ last.moved
    /\ GetState(winHistory).scroll = <<0, MaxScroll>>
    /\ scrollPos = <<0, MaxScroll>>
    /\ last.calls = <<>>

\* C16: _onHistoryChange sets window.onbeforeunload to null exactly when it
\* dispatches the popstate navigation, which is when the confirmation is
\* granted and the native URL differs from the route's. On a discarded
\* page-load event, on a denial and on a granted run with equal URLs the
\* callback stays as it was.
C16_HookClearedOnlyOnDispatch ==
    [][(last'.ran /\ last'.op \in {"onHistoryChange", "mount"})
       => /\ last'.disp = 1 <=> /\ ~last'.suppressed
                                /\ last'.confirm \in {"auto", "granted"}
                                /\ GetUrl(winHistory') # route
          /\ last'.disp \in {0, 1}
          /\ last'.disp = 1 => onbeforeunload' = "null"
          /\ last'.disp = 0 => onbeforeunload' = onbeforeunload]_vars

C16_Witness ==
    /\ last.op = "onHistoryChange"
    /\ last.ran
    /\ last.confirm = "granted"
    /\ last.disp = 1
    /\ onbeforeunload = "null"
    /\ dispatched # <<>>
    /\ dispatched[Len(dispatched)].type = TYPE_POPSTATE

C18_SaveGoesToScrolledEntry ==
    [][(last'.op = "timer" /\ last'.calls # <<>> /\ ghost.armedAt > 0)
       => winHistory.index = ghost.armedAt]_vars

\* C19: whenever the mounted system is quiescent (no popstate payload is
\* waiting to be applied and componentDidUpdate has run since the latest
\* change of the route store) the native URL equals the route's URL.
C19_QuiescentUrlsAgree ==
    (mounted /\ dispatched = <<>> /\ synced) => GetUrl(winHistory) = route

====
